---- MODULE Spec2Model ----
(***************************************************************************)
(* A model of cclint's core: the LintResult life cycle, the per-file agent *)
(* linter, the file scheduler of BaseLinterImpl (sequential loop and       *)
(* worker pool), the summary aggregator, the path security gate and the    *)
(* configuration loader.                                                   *)
(*                                                                         *)
(* The module holds several specifications over one list of variables.     *)
(* Each specification drives its own group of variables and leaves the     *)
(* other groups at their idle value:                                       *)
(*   SpecResult   the life cycle of one LintResult                         *)
(*   SpecPool     AgentsLinter.lint -> lintFiles -> processFilesInParallel *)
(*   SpecSummary  calculateSummary over bounded result lists               *)
(*   SpecPath     sanitizePath over a small file system with symlinks      *)
(*   SpecConfig   loadConfig calls, the configuration cache and the disk   *)
(***************************************************************************)
EXTENDS Integers, Sequences, FiniteSets, TLC

VARIABLES
    \* ---- LintResult life cycle
    result,         \* the LintResult under construction, or NoResult
    origin,         \* history: the operation that created result, its inputs
    \* ---- scheduler
    files,          \* input file list of the linter (paths, discovery order)
    opts,           \* LintOptions of the current run: parallel, concurrency
    pc,             \* "idle" | "seq" | "pool" | "done" | "rejected"
    index,          \* shared cursor of processFilesInParallel / loop position
    workers,        \* worker -> [st, fileIndex]
    results,        \* shared result list, in completion order
    returned,       \* list returned by lint
    invoked,        \* file index -> number of processor invocations (history)
    prev,           \* options and returned list of the previous run
    proc,           \* the processor lintFiles was handed
    \* ---- summary
    sumInput,       \* result list handed to calculateSummary
    summary,        \* the LintSummary, or NoSummary
    \* ---- path gate
    fs,             \* file system: absolute path -> node
    pathIn,         \* [inputPath, basePath] of the sanitizePath call
    pathOut,        \* outcome of the call, or Pending
    \* ---- configuration loader
    disk,           \* configuration file name -> content on disk
    configCache,    \* resolved project root -> cached value, or absent
    calls,          \* caller -> state of its loadConfig invocation
    handedOut,      \* history: the values loadConfig has returned so far
    filesRead,      \* history: the configuration files handed to a loader
    lastCall,       \* the loadConfig call the latest step completed, or NoCall
    \* ---- core entry points
    core,           \* the entry-point call the latest step completed, or NoCore
    \* ---- file discovery
    disc            \* the discovery call the latest step completed, or NoDisc

vars == <<result, origin, files, opts, pc, index, workers, results, returned, invoked,
          prev, proc, sumInput, summary, fs, pathIn, pathOut, disk, configCache,
          calls, handedOut, filesRead, lastCall, core, disc>>

resultVars == <<result, origin>>
poolVars == <<files, opts, pc, index, workers, results, returned, invoked, prev, proc>>
summaryVars == <<sumInput, summary>>
pathVars == <<fs, pathIn, pathOut>>
configVars == <<disk, configCache, calls, handedOut, filesRead, lastCall>>
entryVars == <<core, disc>>

(***************************************************************************)
(* Bounds of the model.                                                    *)
(***************************************************************************)
MaxFiles == 3        \* longest input file list
MaxPath == 3         \* number of distinct file paths
MaxConcurrency == 2  \* largest concurrency option tried
MaxFindings == 2     \* findings recorded by hand on one LintResult
MaxResults == 2      \* longest result list handed to calculateSummary

Min(a, b) == IF a < b THEN a ELSE b

(***************************************************************************)
(* LintResult and the protected helpers of BaseLinterImpl.                 *)
(* A message is a tuple <<kind, detail>>; customSchemaErrors is optional   *)
(* in the type, hasCustomSchemaErrors tells whether it is defined.         *)
(***************************************************************************)
NoResult == [file |-> 0, null |-> TRUE]

createResult(file) ==
    [file |-> file, null |-> FALSE, valid |-> TRUE, errors |-> <<>>,
     warnings |-> <<>>, suggestions |-> <<>>, unusedFields |-> <<>>,
     missingFields |-> <<>>, hasCustomSchemaErrors |-> FALSE,
     customSchemaErrors |-> <<>>]

markInvalid(r) == [r EXCEPT !.valid = FALSE]

addErrorNoInvalidate(r, message) == [r EXCEPT !.errors = Append(@, message)]

addError(r, message) == markInvalid([r EXCEPT !.errors = Append(@, message)])

addWarning(r, message) == [r EXCEPT !.warnings = Append(@, message)]

addSuggestion(r, message) == [r EXCEPT !.suggestions = Append(@, message)]

Includes(seq, x) == \E i \in 1..Len(seq) : seq[i] = x

addUnusedField(r, field) ==
    IF Includes(r.unusedFields, field) THEN r
    ELSE [r EXCEPT !.unusedFields = Append(@, field)]

addMissingField(r, field) ==
    IF Includes(r.missingFields, field) THEN r
    ELSE [r EXCEPT !.missingFields = Append(@, field)]

(***************************************************************************)
(* runCustomValidation: cv is the behaviour of the configured callback:    *)
(* "none" (not configured), "ok" (returns []), "errors" (returns one       *)
(* error string) or "throws".                                              *)
(***************************************************************************)
CustomValidations == {"none", "ok", "errors", "throws"}

runCustomValidationNoFinding(r, cv) ==
    IF cv = "errors"
    THEN addError([r EXCEPT !.hasCustomSchemaErrors = TRUE,
                            !.customSchemaErrors = Append(@, "rejected")],
                  <<"Custom validation", "rejected">>)
    ELSE r

runCustomValidation(r, cv) ==
    CASE cv = "none" -> r
      [] cv = "ok" -> r
      [] cv = "errors" ->
            addError([r EXCEPT !.hasCustomSchemaErrors = TRUE,
                               !.customSchemaErrors = Append(@, "rejected")],
                     <<"Custom validation", "rejected">>)
      [] cv = "throws" -> addError(r, <<"Custom validation failed", "boom">>)

(***************************************************************************)
(* Agent files, configuration and the composed schema.                     *)
(* The content of a file is abstracted to what the linter looks at:        *)
(* whether it can be read, whether it starts with a front-matter           *)
(* delimiter, the state of the two required fields and the other keys.     *)
(***************************************************************************)
ContentKinds == {"plain", "valid", "unknown", "missing", "badname", "unreadable"}

Content(kind) ==
    [readable |-> kind # "unreadable",
     frontmatter |-> kind \notin {"plain", "unreadable"},
     name |-> CASE kind = "missing" -> "absent"
                [] kind = "badname" -> "bad"
                [] OTHER -> "ok",
     description |-> "ok",
     extra |-> IF kind = "unknown" THEN <<"foo">> ELSE <<>>]

\* CclintConfig as far as the agent linter reads it; NoConfig is the absent
\* configuration (every optional chain yields undefined).
StrictSettings == {"undefined", "true", "false"}

NoConfig == [strict |-> "undefined", extend |-> {}, customValidation |-> "none"]

Configs == [strict : StrictSettings, extend : SUBSET {"foo"},
            customValidation : CustomValidations]

\* rules: { unknownFields: 'warning', strict: false, ..., ...config.rules }
mergeWithDefaults(config) ==
    [config EXCEPT !.strict = IF @ = "undefined" THEN "false" ELSE @]

\* what loadConfig found for the project: no configuration file (null), or
\* the configuration of a file
LoadedConfigs ==
    {[found |-> FALSE, config |-> NoConfig]} \cup [found : {TRUE}, config : Configs]

\* info.cclintConfig: left undefined when loadConfig returned null
detectProjectInfo(loaded) ==
    IF loaded.found THEN mergeWithDefaults(loaded.config) ELSE NoConfig

\* createExtendedSchema / getAgentSchema: the base agent schema, extended by
\* the configured fields, strict unless rules.strict is exactly false.
getAgentSchema(config) ==
    [strict |-> config.strict # "false", known |-> config.extend]

\* schema.safeParse(frontmatter): the issues zod reports, the fields of the
\* shape first, the unrecognized keys of a strict object last.
safeParse(schema, fm) ==
    LET nameIssue ==
            CASE fm.name = "absent" ->
                    <<[code |-> "invalid_type", received |-> "undefined",
                       path |-> "name", keys |-> <<>>]>>
              [] fm.name = "bad" ->
                    <<[code |-> "invalid_string", received |-> "string",
                       path |-> "name", keys |-> <<>>]>>
              [] OTHER -> <<>>
        descIssue ==
            IF fm.description = "absent"
            THEN <<[code |-> "invalid_type", received |-> "undefined",
                    path |-> "description", keys |-> <<>>]>>
            ELSE <<>>
        IsExtra(k) == k \notin schema.known
        extraKeys == SelectSeq(fm.extra, IsExtra)
        keyIssue ==
            IF schema.strict /\ extraKeys # <<>>
            THEN <<[code |-> "unrecognized_keys", received |-> "object",
                    path |-> "", keys |-> extraKeys]>>
            ELSE <<>>
    IN nameIssue \o descIssue \o keyIssue

(***************************************************************************)
(* handleZodValidationIssue.  The callbacks are parameters of the          *)
(* function; hasAddUnusedField tells whether the caller passed the sixth   *)
(* one.  Calling the missing callback raises a TypeError: the outcome is   *)
(* the result so far and threw = TRUE.                                     *)
(***************************************************************************)
RECURSIVE HandleKeys(_, _, _)
HandleKeys(keys, r, hasAddUnusedField) ==
    IF keys = <<>> THEN [r |-> r, threw |-> FALSE]
    ELSE IF ~hasAddUnusedField THEN [r |-> r, threw |-> TRUE]
    ELSE HandleKeys(Tail(keys),
                    addWarning(addUnusedField(r, Head(keys)),
                               <<"Unrecognized field", Head(keys)>>),
                    hasAddUnusedField)

handleZodValidationIssue(issue, r, hasAddUnusedField) ==
    IF issue.code = "invalid_type"
    THEN IF issue.received = "undefined"
         THEN [r |-> addError(addMissingField(r, issue.path),
                              <<"Missing required field", issue.path>>),
               threw |-> FALSE]
         ELSE [r |-> addError(r, <<issue.path, "invalid">>), threw |-> FALSE]
    ELSE IF issue.code = "unrecognized_keys"
    THEN HandleKeys(issue.keys, r, hasAddUnusedField)
    ELSE [r |-> addError(r, <<issue.path, "invalid">>), threw |-> FALSE]

RECURSIVE HandleIssues(_, _, _)
HandleIssues(issues, r, hasAddUnusedField) ==
    IF issues = <<>> THEN [r |-> r, threw |-> FALSE]
    ELSE LET one == handleZodValidationIssue(Head(issues), r, hasAddUnusedField)
         IN IF one.threw THEN one
            ELSE HandleIssues(Tail(issues), one.r, hasAddUnusedField)

(***************************************************************************)
(* AgentsLinter.validateAdditional for front matter without a tools,       *)
(* displayName or bundle key and with a name equal to the file name: the   *)
(* displayName suggestion, then the custom validation.                     *)
(***************************************************************************)
validateAdditional(fm, r, config) ==
    LET r1 == IF fm.name # "absent"
              THEN addSuggestion(r, <<"Consider adding displayName", "">>)
              ELSE r
    IN runCustomValidation(r1, config.customValidation)

(***************************************************************************)
(* AgentsLinter.lintAgentFile: NoResult stands for the null it returns for *)
(* a file without front matter.  The call passes five arguments to         *)
(* handleZodValidationIssue, so addUnusedField is missing there.           *)
(***************************************************************************)
validateAgainstSchema(r, issues, hasAddUnusedField) ==
    IF issues = <<>> THEN [r |-> r, threw |-> FALSE]
    ELSE HandleIssues(issues, markInvalid(r), hasAddUnusedField)

lintAgentFile(filePath, content, config) ==
    LET r0 == createResult(filePath)
    IN IF ~content.readable
       THEN addError(r0, <<"Failed to parse file", "ENOENT">>)
       ELSE IF ~content.frontmatter THEN NoResult
       ELSE LET v == validateAgainstSchema(
                         r0, safeParse(getAgentSchema(config), content), FALSE)
            IN IF v.threw
               THEN addError(v.r, <<"Failed to parse file", "TypeError">>)
               ELSE validateAdditional(content, v.r, config)


\* BaseLinterImpl.processFrontmatterFile: the result part of what it
\* returns.  It passes all six arguments to handleZodValidationIssue.
processFrontmatterFile(filePath, content, schema) ==
    LET r0 == createResult(filePath)
    IN IF ~content.frontmatter THEN r0
       ELSE validateAgainstSchema(r0, safeParse(schema, content), TRUE).r

(***************************************************************************)
(* lintProject's replacement result for a linter whose lint() rejected.    *)
(* The literal has no unusedFields and no customSchemaErrors key.          *)
(***************************************************************************)
linterFailedResult(linterName) ==
    [file |-> linterName, null |-> FALSE, valid |-> FALSE,
     errors |-> <<<<"linter failed", linterName>>>>, warnings |-> <<>>,
     suggestions |-> <<>>, unusedFields |-> <<>>, missingFields |-> <<>>,
     hasCustomSchemaErrors |-> FALSE, customSchemaErrors |-> <<>>]

(***************************************************************************)
(* Idle values: a specification keeps the groups it does not drive here.   *)
(***************************************************************************)
NoOrigin == [op |-> "none", kind |-> "plain", config |-> NoConfig]
NoPrev == [has |-> FALSE, parallel |-> FALSE, concurrency |-> 0, returned |-> <<>>]
NoOpts == [parallel |-> FALSE, concurrency |-> 0, workers |-> 0]
NoSummary == [computed |-> FALSE]
Pending == [status |-> "pending"]

ResultIdle == result = NoResult /\ origin = NoOrigin

PoolIdle ==
    /\ files = <<>> /\ opts = NoOpts /\ pc = "off" /\ index = 0
    /\ workers = <<>> /\ results = <<>> /\ returned = <<>>
    /\ invoked = <<>> /\ prev = NoPrev /\ proc = "none"

SummaryIdle == sumInput = <<>> /\ summary = NoSummary

PathIdle == fs = <<>> /\ pathIn = <<>> /\ pathOut = Pending

NoCall == [outcome |-> "none"]

ConfigIdle ==
    /\ disk = <<>> /\ configCache = <<>> /\ calls = <<>>
    /\ handedOut = {} /\ filesRead = {} /\ lastCall = NoCall

NoCore == [entry |-> "none"]
NoDisc == [entry |-> "none"]

EntryIdle == core = NoCore /\ disc = NoDisc

(***************************************************************************)
(* SpecResult: one LintResult from creation to hand-over.  The helpers are *)
(* called in any order with any argument; LintAgentFile runs the whole     *)
(* per-file linter; LinterFailed is lintProject's catch block.             *)
(***************************************************************************)
Messages == {<<"finding", "by hand">>}
FieldNames == {"foo", "name"}
Issues ==
    {[code |-> "invalid_type", received |-> "undefined", path |-> "name", keys |-> <<>>],
     [code |-> "invalid_type", received |-> "number", path |-> "name", keys |-> <<>>],
     [code |-> "invalid_string", received |-> "string", path |-> "name", keys |-> <<>>],
     [code |-> "unrecognized_keys", received |-> "object", path |-> "", keys |-> <<"foo">>]}

Alive == ~result.null
\* the helpers act on a result between createResult and its return
Building == Alive /\ origin.op = "createResult"
ResultFrame == UNCHANGED <<poolVars, summaryVars, pathVars, configVars, entryVars>>
Manual(op) == [op |-> op, kind |-> "plain", config |-> NoConfig]

CreateResult ==
    /\ result = NoResult
    /\ result' = createResult(1)
    /\ origin' = Manual("createResult")
    /\ ResultFrame

AddError ==
    /\ Building /\ Len(result.errors) < MaxFindings
    /\ \E m \in Messages : result' = addError(result, m)
    /\ UNCHANGED origin
    /\ ResultFrame

AddWarning ==
    /\ Building /\ Len(result.warnings) < MaxFindings
    /\ \E m \in Messages : result' = addWarning(result, m)
    /\ UNCHANGED origin
    /\ ResultFrame

AddSuggestion ==
    /\ Building /\ Len(result.suggestions) < MaxFindings
    /\ \E m \in Messages : result' = addSuggestion(result, m)
    /\ UNCHANGED origin
    /\ ResultFrame

AddUnusedField ==
    /\ Building
    /\ \E f \in FieldNames : result' = addUnusedField(result, f)
    /\ UNCHANGED origin
    /\ ResultFrame

AddMissingField ==
    /\ Building
    /\ \E f \in FieldNames : result' = addMissingField(result, f)
    /\ UNCHANGED origin
    /\ ResultFrame

MarkInvalid ==
    /\ Building
    /\ result' = markInvalid(result)
    /\ UNCHANGED origin
    /\ ResultFrame

RunCustomValidation ==
    /\ Building /\ Len(result.errors) < MaxFindings
    /\ \E cv \in CustomValidations : result' = runCustomValidation(result, cv)
    /\ UNCHANGED origin
    /\ ResultFrame

HandleZodValidationIssue ==
    /\ Building /\ Len(result.errors) < MaxFindings
    /\ Len(result.warnings) < MaxFindings
    /\ \E issue \in Issues :
          result' = handleZodValidationIssue(issue, result, TRUE).r
    /\ UNCHANGED origin
    /\ ResultFrame

LintAgentFile ==
    /\ result = NoResult
    /\ \E kind \in ContentKinds, config \in Configs :
          /\ result' = lintAgentFile(1, Content(kind), config)
          /\ origin' = [op |-> "lintAgentFile", kind |-> kind, config |-> config]
    /\ ResultFrame

\* AgentsLinter.lint on one agent file of a project: the configuration is
\* the one detectProjectInfo made of what loadConfig found
LintProject ==
    /\ result = NoResult
    /\ \E kind \in ContentKinds, loaded \in LoadedConfigs, customSchemas \in BOOLEAN :
          \* options.customSchemas is copied into the LintOptions and never read
          /\ result' = lintAgentFile(1, Content(kind), detectProjectInfo(loaded))
          /\ origin' = [op |-> "lint", kind |-> kind, loaded |-> loaded,
                        customSchemas |-> customSchemas]
    /\ ResultFrame

ProcessFrontmatterFile ==
    /\ result = NoResult
    /\ \E kind \in ContentKinds \ {"unreadable"}, config \in Configs :
          /\ result' = processFrontmatterFile(1, Content(kind), getAgentSchema(config))
          /\ origin' = [op |-> "processFrontmatterFile", kind |-> kind,
                        config |-> config]
    /\ ResultFrame

LinterFailed ==
    /\ result = NoResult
    /\ result' = linterFailedResult(0)
    /\ origin' = Manual("linterFailed")
    /\ ResultFrame

\* the result is returned to the caller; the next file starts a new one
HandOver ==
    /\ origin # NoOrigin
    /\ result' = NoResult
    /\ origin' = NoOrigin
    /\ ResultFrame

InitResult ==
    ResultIdle /\ PoolIdle /\ SummaryIdle /\ PathIdle /\ ConfigIdle /\ EntryIdle

NextResult ==
    \/ CreateResult \/ AddError \/ AddWarning \/ AddSuggestion
    \/ AddUnusedField \/ AddMissingField \/ MarkInvalid
    \/ RunCustomValidation \/ HandleZodValidationIssue
    \/ LintAgentFile \/ LintProject \/ ProcessFrontmatterFile
    \/ LinterFailed \/ HandOver

SpecResult == InitResult /\ [][NextResult]_vars

\* C6: at every point of a LintResult's life, valid implies that errors is
\* empty (it starts valid and empty, every recorded error clears valid), and
\* no step of the same result turns valid from false back to true.
ValidHasNoErrors == Alive => (result.valid => result.errors = <<>>)

ValidNeverRestored ==
    (Alive /\ ~result.null' /\ ~result.valid) => ~result.valid'

C6_ValidImpliesNoErrors ==
    ValidHasNoErrors /\ [][ValidHasNoErrors' /\ ValidNeverRestored]_vars

\* C6 witness: an error has been recorded on a result that started valid.
C6_Witness == Alive /\ ~result.valid /\ Len(result.errors) = MaxFindings

\* C5: in strict mode a file whose only schema violation is an unrecognized
\* field has the field in unusedFields, a warning about it, and stays valid.
OnlyUnknownField ==
    /\ origin.op = "lintAgentFile"
    /\ origin.kind = "unknown"
    /\ getAgentSchema(origin.config).strict
    /\ "foo" \notin origin.config.extend
    /\ origin.config.customValidation \in {"none", "ok"}

C5_UnknownFieldKeepsValid ==
    OnlyUnknownField =>
        /\ result.unusedFields = <<"foo">>
        /\ Includes(result.warnings, <<"Unrecognized field", "foo">>)
        /\ result.valid


(***************************************************************************)
(* calculateSummary: the reduction loop over the result list.  duration    *)
(* (a clock reading) is left out of the record.                            *)
(***************************************************************************)
SummaryStep(s, r, customLen) ==
    [s EXCEPT !.validFiles = IF r.valid THEN @ + 1 ELSE @,
              !.totalErrors = @ + Len(r.errors) + customLen,
              !.totalWarnings = @ + Len(r.warnings),
              !.totalSuggestions = @ + Len(r.suggestions)]

RECURSIVE SummaryLoopNoCustom(_, _)
SummaryLoopNoCustom(rs, s) ==
    IF rs = <<>> THEN s
    ELSE SummaryLoopNoCustom(Tail(rs), SummaryStep(s, Head(rs), 0))

RECURSIVE SummaryLoop(_, _)
SummaryLoop(rs, s) ==
    IF rs = <<>> THEN s
    ELSE SummaryLoop(Tail(rs),
                     SummaryStep(s, Head(rs),
                                 IF Head(rs).hasCustomSchemaErrors
                                 THEN Len(Head(rs).customSchemaErrors)
                                 ELSE 0))

calculateSummary(rs) ==
    SummaryLoop(rs, [computed |-> TRUE, totalFiles |-> Len(rs),
                     validFiles |-> 0, totalErrors |-> 0,
                     totalWarnings |-> 0, totalSuggestions |-> 0,
                     results |-> rs])

(***************************************************************************)
(* SpecSummary: calculateSummary applied to every result list of at most   *)
(* MaxResults results.  The function takes any list, so the results are    *)
(* drawn from all shapes of the type, not only those a linter builds.      *)
(***************************************************************************)
Findings(n) == [i \in 1..n |-> <<"finding", "by hand">>]

SummaryResults ==
    {[file |-> 1, null |-> FALSE, valid |-> v, errors |-> Findings(e),
      warnings |-> Findings(w), suggestions |-> <<>>, unusedFields |-> <<>>,
      missingFields |-> <<>>, hasCustomSchemaErrors |-> c[1],
      customSchemaErrors |-> [i \in 1..c[2] |-> "rejected"]] :
        v \in BOOLEAN, e \in 0..2, w \in 0..1,
        c \in {<<FALSE, 0>>, <<TRUE, 0>>, <<TRUE, 1>>}}

SummaryInputs ==
    UNION {[1..n -> SummaryResults] : n \in 0..MaxResults}

SummaryFrame == UNCHANGED <<resultVars, poolVars, pathVars, configVars, entryVars>>

CalculateSummary ==
    /\ summary = NoSummary
    /\ summary' = calculateSummary(sumInput)
    /\ UNCHANGED sumInput
    /\ SummaryFrame

InitSummary ==
    /\ sumInput \in SummaryInputs
    /\ summary = NoSummary
    /\ ResultIdle /\ PoolIdle /\ PathIdle /\ ConfigIdle /\ EntryIdle

NextSummary == CalculateSummary

SpecSummary == InitSummary /\ [][NextSummary]_vars

RECURSIVE SumOver(_, _)
SumOver(S, rs) ==
    IF S = {} THEN 0
    ELSE LET i == CHOOSE j \in S : TRUE
         IN Len(rs[i].errors) + Len(rs[i].customSchemaErrors)
            + SumOver(S \ {i}, rs)

\* C7: calculateSummary returns totalFiles = number of results, validFiles =
\* number of results with valid true, totalErrors = sum over the results of
\* errors.length plus customSchemaErrors.length.
C7_SummaryTotals ==
    summary.computed =>
        /\ summary.totalFiles = Len(sumInput)
        /\ summary.validFiles =
              Cardinality({i \in 1..Len(sumInput) : sumInput[i].valid})
        /\ summary.totalErrors = SumOver(1..Len(sumInput), sumInput)

\* C7 witness: a summary over two results, one valid and one carrying both
\* plain and custom-schema errors.
C7_Witness ==
    /\ summary.computed
    /\ Len(sumInput) = 2
    /\ summary.validFiles = 1
    /\ \E i \in 1..2 : /\ Len(sumInput[i].errors) > 0
                       /\ Len(sumInput[i].customSchemaErrors) > 0


(***************************************************************************)
(* The scheduler: AgentsLinter.lint -> BaseLinterImpl.lintFiles ->         *)
(* processFilesInParallel.                                                 *)
(*                                                                         *)
(* A file path is a number; the order of the numbers is the order          *)
(* localeCompare gives the paths.  The project is fixed: path p holds the  *)
(* content KindOf(p) in every run.  The input list is what discovery       *)
(* returned: any order, and a path may occur twice.                        *)
(***************************************************************************)
PathKinds == <<"valid", "plain", "missing", "unknown">>
KindOf(p) == PathKinds[((p - 1) % Len(PathKinds)) + 1]

Paths == 1..MaxPath
FileLists == UNION {[1..n -> Paths] : n \in 0..MaxFiles}

ParallelOptions == {"true", "false", "undefined"}
ConcurrencyOptions == -1..MaxConcurrency
DefaultConcurrency == 10

\* the processor AgentsLinter.lint hands to lintFiles
processor(file) == lintAgentFile(file, Content(KindOf(file)), NoConfig)

\* A processor that lets a failure escape: it returns what lintAgentFile
\* returns for a file without findings and throws for any other file.
Processors == {"lintAgentFile", "throwing"}

Settled(r) == [threw |-> FALSE, result |-> r]
Thrown == [threw |-> TRUE, result |-> NoResult]

\* await processor(file, config): the value it resolves to, or the throw
invoke(p, file) ==
    LET r == processor(file)
    IN IF p = "throwing" /\ ~r.null /\ ~r.valid THEN Thrown ELSE Settled(r)

\* results.push(result) under "if (result)"
pushResult(rs, r) == IF r.null THEN rs ELSE Append(rs, r)

onProcessorErrorSwallowed(rs, file) == rs

\* the catch block of processNext
onProcessorError(rs, file) ==
    Append(rs, addError(createResult(file), <<"Processing failed", "error">>))

\* try { result = await processor(...); if (result) results.push(result) }
\* catch { ... } of processNext
settleInPool(rs, p, file) ==
    LET o == invoke(p, file)
    IN IF o.threw THEN onProcessorError(rs, file) ELSE pushResult(rs, o.result)

\* results.sort((a, b) => a.file.localeCompare(b.file)): a stable sort
RECURSIVE InsertByFile(_, _)
InsertByFile(sorted, r) ==
    IF sorted = <<>> THEN <<r>>
    ELSE IF sorted[Len(sorted)].file <= r.file THEN Append(sorted, r)
    ELSE Append(InsertByFile(SubSeq(sorted, 1, Len(sorted) - 1), r),
                sorted[Len(sorted)])

RECURSIVE SortLoop(_, _)
SortLoop(rs, acc) ==
    IF rs = <<>> THEN acc ELSE SortLoop(Tail(rs), InsertByFile(acc, Head(rs)))

completionOrder(rs) == rs

sortByFile(rs) == SortLoop(rs, <<>>)

\* number of processNext() calls: for (i = 0; i < Math.min(concurrency, n); i++)
poolSize(concurrency, n) ==
    IF Min(concurrency, n) < 0 THEN 0 ELSE Min(concurrency, n)

PoolFrame == UNCHANGED <<resultVars, summaryVars, pathVars, configVars, entryVars>>

\* AgentsLinter.lint up to the first suspension.  parallel and concurrency
\* are the LintOptions; lint turns them into lintFiles' options.  In the
\* sequential branch the loop calls the processor for the first file; in
\* the parallel branch each processNext() claims one index and calls the
\* processor, all before the first await yields.
Lint(parallelOpt, concurrencyOpt) ==
    LET parallel == parallelOpt # "false"
        concurrency == IF concurrencyOpt = 0 THEN DefaultConcurrency
                       ELSE concurrencyOpt
        n == Len(files)
        size == poolSize(concurrency, n)
    IN /\ pc \in {"idle", "done", "rejected"}
       /\ prev' = IF pc = "done"
                  THEN [has |-> TRUE, parallel |-> opts.parallel,
                        concurrency |-> opts.concurrency, returned |-> returned]
                  ELSE prev
       /\ opts' = [parallel |-> parallel, concurrency |-> concurrencyOpt,
                   workers |-> size]
       /\ results' = <<>>
       /\ IF ~parallel \/ n <= 1
          THEN /\ workers' = <<>>
               /\ IF n = 0
                  THEN /\ pc' = "done" /\ index' = 0
                       /\ invoked' = <<>> /\ returned' = <<>>
                  ELSE /\ pc' = "seq" /\ index' = 1
                       /\ invoked' = [i \in 1..n |-> IF i = 1 THEN 1 ELSE 0]
                       /\ returned' = <<>>
          ELSE /\ pc' = "pool"
               /\ index' = size
               /\ workers' = [w \in 1..size |-> [st |-> "await", fileIndex |-> w]]
               /\ invoked' = [i \in 1..n |-> IF i <= size THEN 1 ELSE 0]
               /\ returned' = <<>>
       /\ UNCHANGED <<files, proc>>
       /\ PoolFrame

StartLint ==
    \E p \in ParallelOptions, c \in ConcurrencyOptions : Lint(p, c)

\* sequential loop: the awaited processor call of files[index] settles, the
\* loop pushes its result and calls the processor for the next file, or
\* returns the list in input order.  The loop has no try: a throw of the
\* processor rejects the promise of lintFiles.
SeqSettle ==
    /\ pc = "seq"
    /\ LET o == invoke(proc, files[index])
       IN IF o.threw
          THEN /\ pc' = "rejected"
               /\ UNCHANGED <<results, index, invoked, returned>>
          ELSE /\ results' = pushResult(results, o.result)
               /\ IF index < Len(files)
                  THEN /\ index' = index + 1
                       /\ invoked' = [invoked EXCEPT ![index + 1] = @ + 1]
                       /\ UNCHANGED <<pc, returned>>
                  ELSE /\ pc' = "done"
                       /\ returned' = results'
                       /\ UNCHANGED <<index, invoked>>
    /\ UNCHANGED <<files, opts, workers, prev, proc>>
    /\ PoolFrame

\* processNext of worker w resumes: the processor call it awaited settles,
\* it pushes the result and goes round the while loop: claims the next
\* index (fileIndex = index++) and calls the processor, or leaves.
Settle(w) ==
    /\ pc = "pool"
    /\ workers[w].st = "await"
    /\ results' = settleInPool(results, proc, files[workers[w].fileIndex])
    /\ IF index < Len(files)
       THEN /\ index' = index + 1
            /\ workers' = [workers EXCEPT ![w].fileIndex = index + 1]
            /\ invoked' = [invoked EXCEPT ![index + 1] = @ + 1]
       ELSE /\ workers' = [workers EXCEPT ![w].st = "done"]
            /\ UNCHANGED <<index, invoked>>
    /\ UNCHANGED <<files, opts, pc, returned, prev, proc>>
    /\ PoolFrame

WorkerSettle == \E w \in DOMAIN workers : Settle(w)

\* await Promise.all(processing) resumes once every worker has left
PoolReturn ==
    /\ pc = "pool"
    /\ \A w \in DOMAIN workers : workers[w].st = "done"
    /\ returned' = sortByFile(results)
    /\ pc' = "done"
    /\ UNCHANGED <<files, opts, index, workers, results, invoked, prev, proc>>
    /\ PoolFrame

InitPool ==
    /\ files \in FileLists
    /\ opts = NoOpts /\ pc = "idle" /\ index = 0
    /\ workers = <<>> /\ results = <<>> /\ returned = <<>>
    /\ invoked = <<>> /\ prev = NoPrev
    /\ proc \in Processors
    /\ ResultIdle /\ SummaryIdle /\ PathIdle /\ ConfigIdle /\ EntryIdle

NextPool == StartLint \/ SeqSettle \/ WorkerSettle \/ PoolReturn

SpecPool == InitPool /\ [][NextPool]_vars

\* lintFiles took the parallel branch in the current run
ParallelMode == opts.parallel /\ Len(files) > 1

RunDone == pc = "done"

IsSortedByFile(rs) ==
    \A i \in 1..Len(rs), j \in 1..Len(rs) : i < j => rs[i].file <= rs[j].file

\* C1: in parallel mode, under every interleaving, every index of the input
\* list is claimed by exactly one worker: when the run has returned the
\* processor was invoked exactly once for each input file (and never more
\* than once on the way).
C1_EachIndexClaimedOnce ==
    ParallelMode =>
        /\ \A i \in DOMAIN invoked : invoked[i] <= 1
        /\ RunDone => \A i \in 1..Len(files) : invoked[i] = 1

\* C8: in parallel mode the returned list is in ascending order of file
\* path, and a run that differs from the previous one only in worker timing
\* (same options, same files) returns the same list.
SameOptionsAsPrev ==
    /\ prev.has
    /\ prev.parallel = opts.parallel
    /\ prev.concurrency = opts.concurrency

C8_ParallelReturnSorted ==
    (RunDone /\ ParallelMode) =>
        /\ IsSortedByFile(returned)
        /\ SameOptionsAsPrev => returned = prev.returned

\* C8 witness: a parallel run whose workers finished out of path order has
\* returned, after an earlier run with the same options.
C8_Witness ==
    /\ RunDone /\ ParallelMode /\ SameOptionsAsPrev
    /\ Len(returned) >= 2
    /\ ~IsSortedByFile(results)

\* C9: for a fixed project totalFiles, totalErrors and totalWarnings are the
\* same with parallel true and with parallel false.  (The summary is the
\* one lintProject computes from the linter's list when no other linter
\* finds a file.)
C9_ParallelSequentialSameTotals ==
    (RunDone /\ prev.has /\ prev.parallel # opts.parallel) =>
        LET a == calculateSummary(returned)
            b == calculateSummary(prev.returned)
        IN /\ a.totalFiles = b.totalFiles
           /\ a.totalErrors = b.totalErrors
           /\ a.totalWarnings = b.totalWarnings

\* C10: two runs over the same unchanged files with parallel true return
\* identical lists, whatever the concurrency of each run.
C10_SameListAnyConcurrency ==
    (RunDone /\ prev.has /\ prev.parallel /\ opts.parallel) =>
        returned = prev.returned

\* the processor throws for the file
Throws(file) == invoke(proc, file).threw

CountOf(rs, file) == Cardinality({k \in 1..Len(rs) : rs[k].file = file})

\* the result the catch block of processNext makes of a throw
IsFailureResult(r) == ~r.valid /\ Len(r.errors) = 1 /\ r.errors[1][1] = "Processing failed"

\* C11: in parallel mode the promise of the pool never rejects, and when
\* the run has returned after the processor threw for a file, every index
\* of the list was claimed and the list holds exactly one result for each
\* occurrence of that file, invalid and with an error message.
C11_ThrowBecomesOneErrorResult ==
    ParallelMode =>
        /\ pc # "rejected"
        /\ (RunDone /\ \E i \in 1..Len(files) : invoked[i] >= 1 /\ Throws(files[i])) =>
            /\ \A i \in 1..Len(files) : invoked[i] = 1
            /\ \A i \in 1..Len(files) : Throws(files[i]) =>
                /\ CountOf(returned, files[i]) =
                       Cardinality({j \in 1..Len(files) : files[j] = files[i]})
                /\ \A k \in 1..Len(returned) :
                       returned[k].file = files[i] => IsFailureResult(returned[k])

\* C11 witness: a pool of one worker has returned after the processor threw
\* for the first file of a longer list.
C11_Witness ==
    /\ RunDone /\ ParallelMode /\ opts.workers = 1
    /\ Throws(files[1]) /\ ~Throws(files[Len(files)])
    /\ Len(returned) >= 2

\* a failure while processing the file: a throw of the processor, or the
\* error the processor itself made of one
ProcessingFails(file) ==
    \/ Throws(file)
    \/ LET r == invoke(proc, file).result
       IN ~r.null /\ \E k \in 1..Len(r.errors) : r.errors[k][1] = "Failed to parse file"

MaxLen == 3         \* segments of an input path
MaxLinks == 2       \* symbolic links followed before ELOOP

Dir == [type |-> "dir", target |-> <<>>]
RegularFile == [type |-> "file", target |-> <<>>]
Link(target) == [type |-> "link", target |-> target]

\* /p is a project with a directory d, a regular file f, a directory whose
\* name begins with two dots and a symbolic link l; /o is outside of it;
\* /b is a symbolic link to /p.
Nodes ==
    {<<"p">>, <<"p", "d">>, <<"p", "f">>, <<"p", "l">>, <<"p", "..d">>,
     <<"o">>, <<"o", "s">>, <<"b">>}

LinkTargets ==
    {<<"p", "d">>, <<"p", "f">>, <<"p">>, <<"o">>, <<"o", "s">>,
     <<"p", "l">>, <<"p", "x">>}

Tree(target) ==
    [q \in Nodes |->
        CASE q = <<"p", "l">> -> Link(target)
          [] q = <<"b">> -> Link(<<"p">>)
          [] q = <<"p", "f">> -> RegularFile
          [] OTHER -> Dir]

SegmentNames == {"d", "f", "l", "o", "p", "b", "..", ".", "..d"}
DotDotPrefixed == {"..", "..d"}

RECURSIVE Normalize(_, _)
Normalize(acc, segs) ==
    IF segs = <<>> THEN acc
    ELSE LET s == Head(segs)
             next == CASE s = "." -> acc
                       [] s = ".." -> IF acc = <<>> THEN acc
                                      ELSE SubSeq(acc, 1, Len(acc) - 1)
                       [] OTHER -> Append(acc, s)
         IN Normalize(next, Tail(segs))

isAbsolute(p) == p.abs

\* path.resolve(from, p): from is a resolved path.
resolve(from, p) ==
    IF isAbsolute(p) THEN Normalize(<<>>, p.segs)
    ELSE Normalize(from, p.segs)

CommonLen(from, to) ==
    CHOOSE k \in 0..Min(Len(from), Len(to)) :
        /\ SubSeq(from, 1, k) = SubSeq(to, 1, k)
        /\ \/ k = Min(Len(from), Len(to))
           \/ from[k + 1] # to[k + 1]

\* path.relative(from, to) of two resolved paths: a relative path string.
relative(from, to) ==
    LET k == CommonLen(from, to)
    IN [abs |-> FALSE,
        segs |-> [i \in 1..(Len(from) - k) |-> ".."] \o SubSeq(to, k + 1, Len(to)),
        nul |-> FALSE]

\* relativePath.startsWith('..')
StartsWithDotDot(p) == p.segs # <<>> /\ Head(p.segs) \in DotDotPrefixed

isOutsideNever(relativePath) == FALSE

isOutside(relativePath) ==
    StartsWithDotDot(relativePath) \/ isAbsolute(relativePath)

FsOk(p) == [code |-> "OK", path |-> p]
FsError(code) == [code |-> code, path |-> <<>>]

RECURSIVE RealWalk(_, _, _, _)
RealWalk(tree, done, rest, fuel) ==
    IF rest = <<>> THEN FsOk(done)
    ELSE LET next == Append(done, Head(rest))
         IN IF next \notin DOMAIN tree THEN FsError("ENOENT")
            ELSE IF tree[next].type = "link"
                 THEN IF fuel = 0 THEN FsError("ELOOP")
                      ELSE RealWalk(tree, <<>>, tree[next].target \o Tail(rest),
                                    fuel - 1)
            ELSE IF tree[next].type = "file" /\ Tail(rest) # <<>>
                 THEN FsError("ENOTDIR")
            ELSE RealWalk(tree, next, Tail(rest), fuel)

\* fs.realpath of a resolved path
realpath(tree, p) == RealWalk(tree, <<>>, p, MaxLinks)

\* fs.stat of a resolved path (follows links)
stat(tree, p) ==
    LET r == realpath(tree, p)
    IN [code |-> r.code,
        isDirectory |-> r.code = "OK" /\ (r.path = <<>> \/ tree[r.path].type = "dir")]

PathSecurityError(message) ==
    [status |-> "PathSecurityError", message |-> message, path |-> <<>>]

ReturnPath(p) == [status |-> "returned", message |-> "", path |-> p]

EmptyString == [abs |-> FALSE, segs |-> <<>>, nul |-> FALSE]

\* inputPath.trim().replace(/\0/g, '')
cleanNulls(inputPath) == [inputPath EXCEPT !.nul = FALSE]

sanitizePath(tree, inputPath, allowedBasePath) ==
    IF inputPath = EmptyString
    THEN PathSecurityError("Path must be a non-empty string")
    ELSE
    LET cleanPath == cleanNulls(inputPath) IN
    IF cleanPath = EmptyString
    THEN PathSecurityError("Path cannot be empty or whitespace only")
    ELSE
    LET resolvedBasePath == resolve(<<>>, allowedBasePath)
        resolvedPath == resolve(resolvedBasePath, cleanPath)
        relativePath == relative(resolvedBasePath, resolvedPath)
    IN
    IF isOutside(relativePath)
    THEN PathSecurityError("Path traversal attempt detected")
    ELSE
    LET st == stat(tree, resolvedPath) IN
    IF st.code = "ENOENT" THEN PathSecurityError("Path does not exist")
    ELSE IF st.code # "OK" THEN PathSecurityError("Failed to access path")
    ELSE IF ~st.isDirectory THEN PathSecurityError("Path must be a directory")
    ELSE
    LET realPath == realpath(tree, resolvedPath)
        realBasePath == realpath(tree, resolvedBasePath)
    IN
    IF realBasePath.code = "ENOENT" THEN PathSecurityError("Path does not exist")
    ELSE IF realBasePath.code # "OK" THEN PathSecurityError("Failed to access path")
    ELSE IF isOutside(relative(realBasePath.path, realPath.path))
    THEN PathSecurityError("Symbolic link traversal detected")
    ELSE ReturnPath(realPath.path)

(***************************************************************************)
(* SpecPath: one sanitizePath call on a file system whose symbolic link    *)
(* points to any of LinkTargets.                                           *)
(***************************************************************************)
RECURSIVE SegLists(_)
SegLists(n) ==
    IF n = 0 THEN {<<>>}
    ELSE LET shorter == SegLists(n - 1)
         IN shorter \cup {Append(s, x) : s \in {t \in shorter : Len(t) = n - 1},
                                         x \in SegmentNames}

InputPaths == [abs : BOOLEAN, segs : SegLists(MaxLen), nul : BOOLEAN]

AbsolutePath(segs) == [abs |-> TRUE, segs |-> segs, nul |-> FALSE]

BasePaths == {AbsolutePath(<<"p">>), AbsolutePath(<<"b">>), AbsolutePath(<<"p", "d">>)}

PathFrame == UNCHANGED <<resultVars, poolVars, summaryVars, configVars, entryVars>>

SanitizePath ==
    /\ pathOut = Pending
    /\ \E inputPath \in InputPaths, allowedBasePath \in BasePaths :
        /\ pathIn' = [inputPath |-> inputPath, allowedBasePath |-> allowedBasePath]
        /\ pathOut' = sanitizePath(fs, inputPath, allowedBasePath)
    /\ UNCHANGED fs
    /\ PathFrame

\* the link is replaced after the call has completed
Relink ==
    /\ pathOut # Pending
    /\ \E target \in LinkTargets :
        /\ fs[<<"p", "l">>] # Link(target)
        /\ fs' = Tree(target)
    /\ pathIn' = <<>>
    /\ pathOut' = Pending
    /\ PathFrame

InitPath ==
    /\ fs \in {Tree(target) : target \in LinkTargets}
    /\ pathIn = <<>> /\ pathOut = Pending
    /\ ResultIdle /\ PoolIdle /\ SummaryIdle /\ ConfigIdle /\ EntryIdle

NextPath == SanitizePath \/ Relink

SpecPath == InitPath /\ [][NextPath]_vars

IsPrefix(a, b) == Len(a) <= Len(b) /\ SubSeq(b, 1, Len(a)) = a

\* q names a directory and no segment of q is a symbolic link
ExistingRealDirectory(tree, q) ==
    /\ \A k \in 1..Len(q) :
        /\ SubSeq(q, 1, k) \in DOMAIN tree
        /\ tree[SubSeq(q, 1, k)].type = "dir"

PathCalled == pathOut # Pending

\* the place the input names, before and after following links
NominalPath == resolve(resolve(<<>>, pathIn.allowedBasePath), cleanNulls(pathIn.inputPath))
NominalBase == resolve(<<>>, pathIn.allowedBasePath)

ResolvesOutside ==
    \/ ~IsPrefix(NominalBase, NominalPath)
    \/ /\ realpath(fs, NominalPath).code = "OK"
       /\ realpath(fs, NominalBase).code = "OK"
       /\ ~IsPrefix(realpath(fs, NominalBase).path, realpath(fs, NominalPath).path)

\* C2: whenever sanitizePath returns, the returned path is the real path of
\* an existing directory inside the real path of the base; an input that
\* resolves outside the base, nominally or through a symbolic link, raises
\* PathSecurityError.
C2_ReturnsRealDirectoryInsideBase ==
    PathCalled =>
        /\ pathOut.status \in {"returned", "PathSecurityError"}
        /\ pathOut.status = "returned" =>
            /\ ExistingRealDirectory(fs, pathOut.path)
            /\ realpath(fs, NominalPath) = FsOk(pathOut.path)
            /\ IsPrefix(realpath(fs, NominalBase).path, pathOut.path)
        /\ ResolvesOutside => pathOut.status = "PathSecurityError"

\* C2 witness: a call whose input names the symbolic link, which points to a
\* directory inside the base, has returned the link's target.
C2_Witness ==
    /\ PathCalled /\ pathOut.status = "returned"
    /\ pathOut.path # NominalPath
    /\ fs[<<"p", "l">>].target = <<"p", "d">>
    /\ pathIn.inputPath.segs = <<"l">>

(***************************************************************************)
(* loadConfig (lib/config.ts).  The content of a configuration file is a   *)
(* record: what JSON.parse makes of it, what the module exports, which of  *)
(* the dangerous patterns its text matches, where the file really lies     *)
(* (linkTo, when the name is a symbolic link) and the configuration it     *)
(* describes.                                                              *)
(***************************************************************************)
CONFIG_FILES ==
    <<".cclintrc.json", "cclint.config.json", "cclint.config.js",
      "cclint.config.mjs", ".cclintrc.js", ".cclintrc.mjs">>

\* configFile.endsWith('.json')
JsonFiles == {".cclintrc.json", "cclint.config.json"}

DANGEROUS_SYSTEM_PATHS ==
    {<<"etc", "passwd">>, <<"etc", "shadow">>, <<"etc", "hosts">>,
     <<"usr", "bin">>, <<"usr", "sbin">>, <<"sys">>, <<"proc">>, <<"dev">>,
     <<"bin">>, <<"sbin">>}

dangerousPatternsWithoutEval ==
    <<"require", "import", "process", "Function", "global">>

dangerousPatterns ==
    <<"require", "import", "process", "eval", "Function", "global">>

Null == "null"
Cwd == <<"p">>

Absent ==
    [exists |-> FALSE, parse |-> "none", export |-> "none", matches |-> {},
     linkTo |-> <<>>, value |-> Null]

JsonText(parse, value) ==
    [exists |-> TRUE, parse |-> parse, export |-> "none", matches |-> {},
     linkTo |-> <<>>, value |-> value]

ScriptText(export, matches, linkTo, value) ==
    [exists |-> TRUE, parse |-> "none", export |-> export, matches |-> matches,
     linkTo |-> linkTo, value |-> value]

\* segment names of which the first is a string prefix of the second
NamePrefixes == {<<"sys", "system">>}

\* resolvedPath.startsWith(dangerousPath), on the path strings
StringStartsWith(p, q) ==
    /\ 0 < Len(q) /\ Len(q) <= Len(p)
    /\ SubSeq(p, 1, Len(q) - 1) = SubSeq(q, 1, Len(q) - 1)
    /\ \/ p[Len(q)] = q[Len(q)]
       \/ <<q[Len(q)], p[Len(q)]>> \in NamePrefixes

isSystemPath(resolvedPath) ==
    \E dangerousPath \in DANGEROUS_SYSTEM_PATHS :
        StringStartsWith(resolvedPath, dangerousPath) \/ resolvedPath = dangerousPath

\* cleanPath.includes('..')
IncludesDotDot(p) == \E i \in 1..Len(p.segs) : p.segs[i] \in DotDotPrefixed

validateProjectRoot(projectRoot) ==
    IF projectRoot = EmptyString \/ projectRoot.nul
    THEN [threw |-> TRUE, path |-> <<>>]
    ELSE IF IncludesDotDot(projectRoot) THEN [threw |-> TRUE, path |-> <<>>]
    ELSE LET resolvedPath == resolve(Cwd, projectRoot)
         IN IF isSystemPath(resolvedPath) THEN [threw |-> TRUE, path |-> <<>>]
            ELSE [threw |-> FALSE, path |-> resolvedPath]

Loaded(config) == [status |-> "ok", config |-> config, executed |-> FALSE]
LoadError(executed) == [status |-> "error", config |-> Null, executed |-> executed]
SecurityErrorUnmarked == [status |-> "error", config |-> Null, executed |-> FALSE]
SecurityError == [status |-> "[SECURITY]", config |-> Null, executed |-> FALSE]

loadJsonConfig(content) ==
    IF content.parse = "syntax error" THEN LoadError(FALSE)
    ELSE IF content.parse # "object" THEN LoadError(FALSE)
    ELSE Loaded(content.value)

\* pattern.test(fileContent) for some pattern of the list
ScanFinds(patterns, content) ==
    \E i \in 1..Len(patterns) : patterns[i] \in content.matches

\* as importModule, with a timeout that resolves instead of rejecting
importModuleTimeoutResolves(content) ==
    IF content.export \in {"object", "function", "never settles"}
    THEN [Loaded(content.value) EXCEPT !.executed = TRUE]
    ELSE LoadError(TRUE)

\* await import(fileUrl) and the handling of the export
importModule(content) ==
    CASE content.export = "object" -> [Loaded(content.value) EXCEPT !.executed = TRUE]
      [] content.export = "function" -> [Loaded(content.value) EXCEPT !.executed = TRUE]
      \* Promise.race: the timeout promise rejects after 5000 ms
      [] content.export = "never settles" -> LoadError(TRUE)
      \* the promise of config() rejects
      [] content.export = "rejects" -> LoadError(TRUE)
      \* it rejects with an error whose message contains '[SECURITY]'
      [] content.export = "rejects [SECURITY]" -> [SecurityError EXCEPT !.executed = TRUE]
      \* the export is neither an object nor a function
      [] OTHER -> LoadError(TRUE)

loadJsConfig(content, configPath, projectRoot) ==
    LET fileName == configPath[Len(configPath)]
        realConfigPath == IF content.linkTo = <<>> THEN configPath ELSE content.linkTo
        realProjectRoot == projectRoot
        relativePath == relative(realProjectRoot, realConfigPath)
    IN IF isOutside(relativePath) THEN SecurityError
       ELSE IF ~Includes(CONFIG_FILES, fileName) THEN SecurityError
       ELSE IF ScanFinds(dangerousPatterns, content) THEN SecurityError
       ELSE importModule(content)

\* The catch block of the loop: what the loop does after a loader threw.
afterCatchGiveUp(r) == "return null"

afterCatch(r) ==
    IF r.status = "[SECURITY]" THEN "return null" ELSE "continue"

\* The for loop of loadConfig from candidate i on.  acc collects what the
\* call has handed to a loader (loaded) and what it has imported (imports).
RECURSIVE LoadLoop(_, _, _, _, _)
LoadLoop(d, projectRoot, allowJs, i, acc) ==
    IF i > Len(CONFIG_FILES) THEN [acc EXCEPT !.result = Null]
    ELSE
    LET configFile == CONFIG_FILES[i]
        configPath == Append(projectRoot, configFile)
        content == d[configFile]
        skip == LoadLoop(d, projectRoot, allowJs, i + 1, acc)
    IN
    IF isOutside(relative(projectRoot, configPath)) THEN skip
    ELSE IF ~content.exists THEN skip
    ELSE IF configFile \notin JsonFiles /\ allowJs = "false" THEN skip
    ELSE
    LET r == IF configFile \in JsonFiles THEN loadJsonConfig(content)
             ELSE loadJsConfig(content, configPath, projectRoot)
        entry == [file |-> configFile, content |-> content]
        seenSoFar == [acc EXCEPT !.loaded = @ \cup {entry},
                                 !.imports = IF r.executed THEN @ \cup {entry} ELSE @]
    IN IF r.status = "ok"
       THEN [seenSoFar EXCEPT !.result = r.config, !.source = configFile]
       ELSE IF afterCatch(r) = "return null"
       THEN [seenSoFar EXCEPT !.result = Null, !.stopped = configFile]
       ELSE LoadLoop(d, projectRoot, allowJs, i + 1, seenSoFar)

CacheHas(cache, key) == key \in DOMAIN cache

CacheSet(cache, key, value) ==
    [k \in DOMAIN cache \cup {key} |-> IF k = key THEN value ELSE cache[k]]

(***************************************************************************)
(* SpecConfig: the callers of loadConfig and an editor of the files.  A    *)
(* call runs to its first await (LoadConfigCall: validation and cache      *)
(* lookup) and, on a miss, later runs the loop over the candidates, stores *)
(* the outcome and returns (LoadConfigFinish).  The loop sees the files as *)
(* they are when it runs.                                                  *)
(***************************************************************************)
Callers == {"loadProjectConfig", "lintProject"}
AllowJsOptions == {"undefined", "false"}

RootInputs ==
    {AbsolutePath(<<"p">>),
     [abs |-> FALSE, segs |-> <<".">>, nul |-> FALSE],
     AbsolutePath(<<"p", "..", "p">>),
     AbsolutePath(<<"system">>),
     [abs |-> TRUE, segs |-> <<"p">>, nul |-> TRUE],
     EmptyString}

Writable == {".cclintrc.json", "cclint.config.js", ".cclintrc.mjs"}

JsonTexts == {JsonText("object", "A"), JsonText("syntax error", Null),
              JsonText("scalar", Null)}

\* what a script text can match: one name per regular expression
PatternNames == {"require", "import", "process", "eval", "Function", "global"}

ScriptTexts ==
    {ScriptText("object", {}, <<>>, "B"),
     ScriptText("function", {}, <<>>, "B"),
     ScriptText("never settles", {}, <<>>, Null),
     ScriptText("rejects", {}, <<>>, Null),
     ScriptText("rejects [SECURITY]", {}, <<>>, Null),
     ScriptText("object", {}, <<"o", "config.js">>, "B")}
    \cup {ScriptText("object", {pattern}, <<>>, "B") : pattern \in PatternNames}

\* the texts of the script file of lowest precedence: a plain object
\* export, harmless or matching /eval\s*\(/
FallbackTexts ==
    {ScriptText("object", {}, <<>>, "B"), ScriptText("object", {"eval"}, <<>>, "B")}

TextsFor(configFile) ==
    {Absent} \cup (IF configFile \in JsonFiles THEN JsonTexts
                   ELSE IF configFile = "cclint.config.js" THEN ScriptTexts
                   ELSE FallbackTexts)

IdleCall == [st |-> "idle", projectRoot |-> <<>>, allowJs |-> "undefined", seen |-> {}]

\* A completed call: its options, whether the cache answered it, what was
\* handed out (seen) and read (readBefore) before it, and what its loop did.
Completed(caller, projectRoot, allowJs, outcome, cached, value, seen, acc) ==
    [outcome |-> outcome, caller |-> caller, projectRoot |-> projectRoot,
     allowJs |-> allowJs,
     cached |-> cached, result |-> value, seen |-> seen,
     loaded |-> acc.loaded, imports |-> acc.imports,
     source |-> acc.source, stopped |-> acc.stopped,
     readBefore |-> {e.file : e \in acc.loaded} \cap filesRead]

NothingLoaded ==
    [result |-> Null, loaded |-> {}, imports |-> {}, source |-> "none",
     stopped |-> "none"]

ConfigFrame == UNCHANGED <<resultVars, poolVars, summaryVars, pathVars, entryVars>>

LoadConfigCall ==
    /\ \E caller \in Callers, projectRoot \in RootInputs, allowJs \in AllowJsOptions :
        /\ calls[caller].st = "idle"
        /\ LET root == validateProjectRoot(projectRoot) IN
           IF root.threw
           THEN /\ lastCall' = Completed(caller, <<>>, allowJs, "threw", FALSE, Null,
                                         handedOut, NothingLoaded)
                /\ UNCHANGED <<calls, handedOut>>
           ELSE IF CacheHas(configCache, root.path)
           THEN /\ lastCall' = Completed(caller, root.path, allowJs, "returned", TRUE,
                                         configCache[root.path], handedOut,
                                         NothingLoaded)
                /\ handedOut' = handedOut \cup {configCache[root.path]}
                /\ UNCHANGED calls
           ELSE /\ calls' = [calls EXCEPT ![caller] =
                                [st |-> "loading", projectRoot |-> root.path,
                                 allowJs |-> allowJs, seen |-> handedOut]]
                /\ lastCall' = NoCall
                /\ UNCHANGED handedOut
    /\ UNCHANGED <<disk, configCache, filesRead>>
    /\ ConfigFrame

LoadConfigFinish ==
    /\ \E caller \in Callers :
        /\ calls[caller].st = "loading"
        /\ LET c == calls[caller]
               r == LoadLoop(disk, c.projectRoot, c.allowJs, 1, NothingLoaded)
           IN /\ configCache' = CacheSet(configCache, c.projectRoot, r.result)
              /\ handedOut' = handedOut \cup {r.result}
              /\ filesRead' = filesRead \cup {e.file : e \in r.loaded}
              /\ lastCall' = Completed(caller, c.projectRoot, c.allowJs, "returned", FALSE,
                                       r.result, c.seen, r)
        /\ calls' = [calls EXCEPT ![caller] = IdleCall]
    /\ UNCHANGED disk
    /\ ConfigFrame

EditDisk ==
    /\ \E configFile \in Writable :
        \E content \in TextsFor(configFile) :
            /\ disk[configFile] # content
            /\ disk' = [disk EXCEPT ![configFile] = content]
    /\ lastCall' = NoCall
    /\ UNCHANGED <<configCache, calls, handedOut, filesRead>>
    /\ ConfigFrame

InitConfig ==
    /\ disk = [f \in {CONFIG_FILES[i] : i \in 1..Len(CONFIG_FILES)} |-> Absent]
    /\ configCache = <<>>
    /\ calls = [caller \in Callers |-> IdleCall]
    /\ handedOut = {}
    /\ filesRead = {}
    /\ lastCall = NoCall
    /\ ResultIdle /\ PoolIdle /\ SummaryIdle /\ PathIdle /\ EntryIdle

NextConfig == LoadConfigCall \/ LoadConfigFinish \/ EditDisk

SpecConfig == InitConfig /\ [][NextConfig]_vars

CallReturned == lastCall.outcome = "returned"

Dangerous(content) == content.matches # {}

InsideProject(entry) ==
    \/ entry.content.linkTo = <<>>
    \/ IsPrefix(Cwd, entry.content.linkTo)

\* C3: a script configuration whose text matches a dangerous pattern is
\* never imported: whatever a call imports lies inside the project, has an
\* allowed name and matches no pattern; and a call that came to load a
\* dangerous script returned null.
C3_DangerousScriptNeverImported ==
    CallReturned =>
        /\ \A entry \in lastCall.imports :
            /\ ~Dangerous(entry.content)
            /\ InsideProject(entry)
            /\ Includes(CONFIG_FILES, entry.file)
        /\ (\E entry \in lastCall.loaded : Dangerous(entry.content)) =>
            lastCall.result = Null

\* C3 witness: a call that first imported a harmless script whose export
\* never settled and then came to a dangerous script has returned null.
C3_Witness ==
    /\ CallReturned
    /\ \E entry \in lastCall.loaded : Dangerous(entry.content)
    /\ lastCall.imports # {}
    /\ lastCall.result = Null

\* C4: once loadConfig has returned for the root, every later call returns
\* the same value and reads no configuration file.
C4_LaterCallsReturnSameResult ==
    (CallReturned /\ lastCall.seen # {}) =>
        /\ lastCall.seen = {lastCall.result}
        /\ lastCall.loaded = {}

FileNames == {CONFIG_FILES[i] : i \in 1..Len(CONFIG_FILES)}

\* position of a file name in the precedence order
Rank(configFile) == CHOOSE i \in 1..Len(CONFIG_FILES) : CONFIG_FILES[i] = configFile

\* the call completed by the latest step ran the loop over the files
LoopReturned == CallReturned /\ ~lastCall.cached

\* the first file of the set in precedence order, as a set of at most one
FirstOf(S) == {f \in S : \A g \in S : Rank(f) <= Rank(g)}

\* what is on disk: a file with a configuration in it, a script that the
\* security checks refuse
HoldsConfiguration(f) ==
    /\ disk[f].exists
    /\ IF f \in JsonFiles THEN disk[f].parse = "object"
       ELSE /\ disk[f].export \in {"object", "function"}
            /\ ~Dangerous(disk[f])
            /\ InsideProject([file |-> f, content |-> disk[f]])

\* loading the script raises an error marked [SECURITY]
Refused(f) ==
    /\ disk[f].exists /\ f \notin JsonFiles
    /\ \/ Dangerous(disk[f])
       \/ ~InsideProject([file |-> f, content |-> disk[f]])
       \/ disk[f].export = "rejects [SECURITY]"

\* the files a call with this allowJs option looks into
Considered(allowJs) ==
    {f \in FileNames : disk[f].exists /\ (allowJs = "false" => f \in JsonFiles)}

\* C13 (as stated): a call that searches the files returns the
\* configuration of the first file that exists in the precedence order (or
\* none, if that file holds none): no later file determines the result.
C13_FirstExistingFileWins ==
    LoopReturned =>
        \A f \in FirstOf({g \in FileNames : disk[g].exists}) :
            lastCall.source \in {f, "none"}

\* C13 (amended): a call that searches the files passes over the files it
\* skips under allowJs: false and the files that fail to load; the first
\* remaining file decides: its configuration is returned, or null if it is
\* a script that fails a security check; with no such file null is returned.
C13_FirstLoadableFileWins ==
    LoopReturned =>
        LET deciding == FirstOf({f \in Considered(lastCall.allowJs) :
                                    HoldsConfiguration(f) \/ Refused(f)})
        IN /\ \A f \in deciding :
                IF HoldsConfiguration(f)
                THEN lastCall.source = f /\ lastCall.result = disk[f].value
                ELSE lastCall.source = "none" /\ lastCall.result = Null
           /\ deciding = {} => lastCall.source = "none" /\ lastCall.result = Null

\* C13 witness: .cclintrc.json exists but does not parse, cclint.config.js
\* and .cclintrc.mjs both hold a configuration, and the call returned the
\* one of cclint.config.js.
C13_Witness ==
    /\ LoopReturned
    /\ disk[".cclintrc.json"].parse = "syntax error"
    /\ HoldsConfiguration("cclint.config.js") /\ HoldsConfiguration(".cclintrc.mjs")
    /\ lastCall.source = "cclint.config.js" /\ lastCall.result = "B"

\* the loop of the call handed this file to loadJsConfig, which refused it
RefusedByCall(entry) ==
    /\ entry.file \notin JsonFiles
    /\ Dangerous(entry.content) \/ ~InsideProject(entry) \/ ~Includes(CONFIG_FILES, entry.file)

\* C14: a call whose script configuration failed a security check has not
\* thrown: it returned null, and null is what the cache holds for its root.
C14_SecurityFailureReturnsAndCachesNull ==
    (lastCall.outcome # "none" /\ \E entry \in lastCall.loaded : RefusedByCall(entry)) =>
        /\ lastCall.outcome = "returned"
        /\ lastCall.result = Null
        /\ CacheHas(configCache, lastCall.projectRoot)
        /\ configCache[lastCall.projectRoot] = Null

\* C14 witness: cclint.config.js is a link to a file outside the project,
\* .cclintrc.mjs holds a configuration; the call returned null and cached it.
C14_Witness ==
    /\ LoopReturned
    /\ \E entry \in lastCall.loaded :
            entry.file = "cclint.config.js" /\ ~InsideProject(entry)
    /\ HoldsConfiguration(".cclintrc.mjs")
    /\ lastCall.result = Null
    /\ configCache[lastCall.projectRoot] = Null

\* exports that are a function whose promise never settles, or rejects
Unsettled == {"never settles", "rejects", "rejects [SECURITY]"}

\* the call imported a script with such an export
ImportedUnsettled(entry) ==
    entry \in lastCall.imports /\ entry.content.export \in Unsettled

\* C15 (as stated): a call that imported a script whose exported function
\* never settles or rejects has returned null.
C15_UnsettledExportGivesNull ==
    (lastCall.outcome # "none" /\ \E entry \in lastCall.loaded : ImportedUnsettled(entry)) =>
        lastCall.outcome = "returned" /\ lastCall.result = Null

\* C15 (amended): a call that imported a script whose exported function
\* never settles or rejects has returned, and not with anything from that
\* script: a rejection marked [SECURITY] gives null; otherwise the first
\* file after the script that holds a configuration or is refused decides,
\* and null is returned when there is none.
C15_UnsettledExportCountsAsFailedLoad ==
    lastCall.outcome # "none" =>
        \A entry \in lastCall.loaded : ImportedUnsettled(entry) =>
            /\ lastCall.outcome = "returned"
            /\ lastCall.source # entry.file
            /\ IF entry.content.export = "rejects [SECURITY]"
               THEN lastCall.result = Null
               ELSE LET deciding ==
                            FirstOf({f \in Considered(lastCall.allowJs) :
                                        /\ Rank(f) > Rank(entry.file)
                                        /\ HoldsConfiguration(f) \/ Refused(f)})
                    IN /\ \A f \in deciding :
                            IF HoldsConfiguration(f)
                            THEN lastCall.source = f /\ lastCall.result = disk[f].value
                            ELSE lastCall.result = Null
                       /\ deciding = {} => lastCall.result = Null

\* C15 witness: the export of cclint.config.js never settles and
\* .cclintrc.mjs holds a configuration, which the call returned.
C15_Witness ==
    /\ LoopReturned
    /\ \E entry \in lastCall.imports :
            entry.file = "cclint.config.js" /\ entry.content.export = "never settles"
    /\ lastCall.source = ".cclintrc.mjs" /\ lastCall.result = "B"

\* the configurations that script files hold (JSON files hold "A")
FromScript(value) == value \in {t.value : t \in ScriptTexts \cup FallbackTexts} \ {Null}

\* C16: a call made with allowJs: false never returns a configuration
\* obtained from a script file.
C16_AllowJsFalseReturnsNoScriptConfig ==
    (CallReturned /\ lastCall.allowJs = "false") => ~FromScript(lastCall.result)

\* C17: the configuration files of a root are read, and the scripts
\* executed, at most once: no call hands a loader a file that an earlier
\* call has already handed to one.
C17_FilesReadAtMostOnce ==
    CallReturned => lastCall.readBefore = {}

(***************************************************************************)
(* The path gate again: null bytes, and the synchronous check isPathSafe.  *)
(***************************************************************************)
\* C18: sanitizePath raises PathSecurityError for every input that
\* contains a null byte.
C18_NullByteRaises ==
    (PathCalled /\ pathIn.inputPath.nul) => pathOut.status = "PathSecurityError"

isPathSafe(inputPath, allowedBasePath) ==
    IF inputPath = EmptyString THEN FALSE
    \* inputPath.includes('\0')
    ELSE IF inputPath.nul THEN FALSE
    ELSE
    LET cleanPath == inputPath IN
    IF cleanPath = EmptyString THEN FALSE
    ELSE
    LET resolvedBasePath == resolve(<<>>, allowedBasePath)
        resolvedPath == resolve(resolvedBasePath, cleanPath)
        relativePath == relative(resolvedBasePath, resolvedPath)
    IN ~isOutside(relativePath)

\* C19: whenever sanitizePath succeeds on an input and a base, isPathSafe
\* returns true for them.
C19_SanitizedImpliesSafe ==
    (PathCalled /\ pathOut.status = "returned") =>
        isPathSafe(pathIn.inputPath, pathIn.allowedBasePath)

(***************************************************************************)
(* Strictness of the agent schema for the configuration of a project.      *)
(***************************************************************************)
\* C20: validation is strict unless the configuration sets rules.strict to
\* false: an agent file of a project whose configuration file leaves
\* rules.strict out gets the result of strict validation, and with an
\* otherwise empty configuration file the result of a project that has no
\* configuration file.
C20_StrictUnlessSetFalse ==
    (origin.op = "lint" /\ origin.loaded.found /\ origin.loaded.config.strict # "false") =>
        /\ result = lintAgentFile(1, Content(origin.kind),
                                  [origin.loaded.config EXCEPT !.strict = "true"])
        /\ origin.loaded.config = NoConfig =>
                result = lintAgentFile(1, Content(origin.kind),
                                       detectProjectInfo([found |-> FALSE, config |-> NoConfig]))

(***************************************************************************)
(* Custom validation callbacks that throw.                                 *)
(***************************************************************************)
\* lintAgentFile came to call the callback of the configuration: the file
\* was read, has front matter, and schema validation ran to its end
CallbackInvoked ==
    /\ origin.op = "lintAgentFile"
    /\ Content(origin.kind).readable /\ Content(origin.kind).frontmatter
    /\ ~validateAgainstSchema(createResult(1),
                              safeParse(getAgentSchema(origin.config), Content(origin.kind)),
                              FALSE).threw

\* C21: when the custom-validation callback throws, the file still gets a
\* result: it is invalid, carries the 'Custom validation failed' error, and
\* the exception has not reached the catch block around the file.
C21_CallbackExceptionBecomesError ==
    (CallbackInvoked /\ origin.config.customValidation = "throws") =>
        /\ ~result.null
        /\ ~result.valid
        /\ Includes(result.errors, <<"Custom validation failed", "boom">>)
        /\ \A k \in 1..Len(result.errors) : result.errors[k][1] # "Failed to parse file"

\* C21 witness: a file that passes the schema, linted with a callback that
\* throws, has the callback's failure as its only error.
C21_Witness ==
    /\ CallbackInvoked /\ origin.config.customValidation = "throws"
    /\ origin.kind = "valid"
    /\ result.errors = <<(<<"Custom validation failed", "boom">>)>>
    /\ ~result.valid

(***************************************************************************)
(* The customSchemas option.                                               *)
(***************************************************************************)
\* the configuration without its schema extensions
BaseSchemasOnly(config) == [config EXCEPT !.extend = {}]

\* C23: with customSchemas false the schema extensions of the
\* configuration are not honoured: the file gets the result that
\* validation against the base schema gives.
C23_CustomSchemasOffUsesBaseSchema ==
    (origin.op = "lint" /\ ~origin.customSchemas) =>
        result = lintAgentFile(1, Content(origin.kind),
                               BaseSchemasOnly(detectProjectInfo(origin.loaded)))

(***************************************************************************)
(* Invalid results and their errors.                                       *)
(***************************************************************************)
\* the result is what a linter made of a file
LinterMade == origin.op \in {"lintAgentFile", "lint", "processFrontmatterFile", "linterFailed"}

\* C28: a result that a linter reports with valid = false carries at least
\* one error.
C28_InvalidHasAnError ==
    (LinterMade /\ Alive /\ ~result.valid) => result.errors # <<>>

(***************************************************************************)
(* The size of the worker pool.                                            *)
(***************************************************************************)
\* C29: in parallel mode every input file is processed whatever the
\* concurrency option is: when the run has returned, the processor was
\* invoked for every index and every file that has a result is in the list.
C29_EveryFileProcessedAnyConcurrency ==
    (RunDone /\ ParallelMode) =>
        \A i \in 1..Len(files) :
            /\ invoked[i] >= 1
            /\ ~invoke(proc, files[i]).result.null \/ Throws(files[i]) =>
                    CountOf(returned, files[i]) >= 1

(***************************************************************************)
(* The entry points of lib/core.ts: lintProject, lintFiles,                *)
(* loadProjectConfig and detectProject.  A call runs in a working          *)
(* directory cwd; /p is a project (it holds a .claude directory), /system  *)
(* is a directory without project markers whose name begins with the name  *)
(* of a system directory.  The files below a project root are CoreFiles,   *)
(* numbered in ascending path order:                                       *)
(*   1 .claude/agents/a.md   2 .claude/commands/c.md                       *)
(*   3 .claude/settings.json 4 agents/b.md   5 CLAUDE.md                   *)
(***************************************************************************)
CoreNodes == Nodes \cup {<<"system">>, <<"system", "d">>}

CoreTree ==
    [q \in CoreNodes |-> IF q \in Nodes THEN Tree(<<"p", "d">>)[q] ELSE Dir]

WorkingDirectories == {<<"p">>, <<"system">>}

RelativePath(segs) == [abs |-> FALSE, segs |-> segs, nul |-> FALSE]

\* EmptyString stands for every falsy argument: '' and undefined
CoreInputs ==
    {EmptyString, RelativePath(<<".">>), RelativePath(<<"d">>),
     RelativePath(<<"f">>), RelativePath(<<"..">>), RelativePath(<<"x">>),
     AbsolutePath(<<"o">>)}

CoreFiles == 1..5
AgentFiles == <<1, 4>>          \* .claude/agents before agents
CommandFiles == <<2>>
SettingsFile == 3
ClaudeMdFiles == <<5>>

SDKLintOptions == [parallel : BOOLEAN, verbose : BOOLEAN, quiet : BOOLEAN]

CoreThrew(error) == [outcome |-> "threw", error |-> error, summary |-> NoSummary]
CoreReturned(s) == [outcome |-> "returned", error |-> "none", summary |-> s]

ProjectRoots == {<<"p">>}

RECURSIVE findProjectRootFrom(_, _)
findProjectRootFrom(currentPath, startPath) ==
    IF currentPath = <<>> THEN startPath
    ELSE IF currentPath \in ProjectRoots THEN currentPath
    ELSE findProjectRootFrom(SubSeq(currentPath, 1, Len(currentPath) - 1), startPath)

findProjectRoot(startPath) == findProjectRootFrom(startPath, startPath)

dirname(p) == IF p = <<>> THEN p ELSE SubSeq(p, 1, Len(p) - 1)

\* loadConfig(projectRoot) as the entry points see it: it throws what
\* validateProjectRoot throws and returns otherwise
loadConfigThrows(root) == validateProjectRoot(AbsolutePath(root)).threw

Existing(fileList, present) == SelectSeq(fileList, LAMBDA f : f \in present)

RECURSIVE MapProcessor(_)
MapProcessor(fileList) ==
    IF fileList = <<>> THEN <<>>
    ELSE <<processor(Head(fileList))>> \o MapProcessor(Tail(fileList))

RECURSIVE MapCreateResult(_)
MapCreateResult(fileList) ==
    IF fileList = <<>> THEN <<>>
    ELSE <<createResult(Head(fileList))>> \o MapCreateResult(Tail(fileList))

\* AgentsLinter.lint: discovery order, sorted by the pool when it runs
agentsLint(present, lintOptions) ==
    LET found == Existing(AgentFiles, present)
        rs == MapProcessor(found)
    IN IF ~lintOptions.parallel \/ Len(found) <= 1 THEN rs ELSE sortByFile(rs)

\* CommandsLinter.lint on command files without findings
commandsLint(present, lintOptions) == MapCreateResult(Existing(CommandFiles, present))

\* ClaudeMdLinter.lint on a CLAUDE.md without findings; a missing one is
\* reported by a result that carries a suggestion
claudeMdLint(present, lintOptions) ==
    LET found == Existing(ClaudeMdFiles, present)
    IN IF found # <<>> THEN MapCreateResult(found)
       ELSE <<addSuggestion(createResult(ClaudeMdFiles[1]), <<"no CLAUDE.md", "">>)>>

settingsLintVerboseIgnored(present, lintOptions) ==
    IF SettingsFile \in present THEN <<createResult(SettingsFile)>> ELSE <<>>

\* SettingsLinter.lint: a missing settings file is reported in verbose mode
settingsLint(present, lintOptions) ==
    IF SettingsFile \in present THEN <<createResult(SettingsFile)>>
    ELSE IF lintOptions.verbose
    THEN <<addSuggestion(createResult(SettingsFile), <<"no settings file", "">>)>>
    ELSE <<>>

runLinters(present, lintOptions) ==
    agentsLint(present, lintOptions) \o commandsLint(present, lintOptions)
        \o settingsLint(present, lintOptions) \o claudeMdLint(present, lintOptions)

lintProject(cwd, projectRoot, options, present) ==
    LET sanitizedRoot == sanitizePath(CoreTree, projectRoot, AbsolutePath(cwd))
    IN IF sanitizedRoot.status = "PathSecurityError" THEN CoreThrew("PathSecurityError")
       ELSE IF loadConfigThrows(sanitizedRoot.path) THEN CoreThrew("Error")
       ELSE CoreReturned(calculateSummary(runLinters(present, options)))

RECURSIVE sanitizeAll(_, _)
sanitizeAll(cwd, fileList) ==
    IF fileList = <<>> THEN <<>>
    ELSE LET s == sanitizePath(CoreTree, Head(fileList), AbsolutePath(cwd))
         IN (IF s.status = "PathSecurityError" THEN <<>> ELSE <<s.path>>)
                \o sanitizeAll(cwd, Tail(fileList))

\* Every sanitized path is a directory of CoreTree, none of which is named
\* like an agent, command, settings or CLAUDE.md file: the file groups are
\* empty and no linter task is started.
lintFiles(cwd, fileList, options, present) ==
    IF fileList = <<>> THEN CoreReturned(calculateSummary(<<>>))
    ELSE LET sanitizedFiles == sanitizeAll(cwd, fileList)
         IN IF sanitizedFiles = <<>> THEN CoreThrew("Error")
            ELSE IF loadConfigThrows(findProjectRoot(dirname(sanitizedFiles[1])))
            THEN CoreThrew("Error")
            ELSE CoreReturned(calculateSummary(<<>>))

loadProjectConfig(cwd, projectRoot) ==
    LET s == sanitizePath(CoreTree, projectRoot, AbsolutePath(cwd))
    IN IF projectRoot # EmptyString /\ s.status = "PathSecurityError"
       THEN CoreThrew("PathSecurityError")
       ELSE IF loadConfigThrows(IF projectRoot # EmptyString THEN s.path ELSE cwd)
       THEN CoreThrew("Error")
       ELSE CoreReturned(NoSummary)

detectProject(cwd, projectRoot) ==
    LET s == sanitizePath(CoreTree, projectRoot, AbsolutePath(cwd))
    IN IF projectRoot # EmptyString /\ s.status = "PathSecurityError"
       THEN CoreThrew("PathSecurityError")
       ELSE CoreReturned(NoSummary)

MaxArgs == 2        \* paths handed to lintFiles

CoreFileLists == UNION {[1..n -> CoreInputs] : n \in 0..MaxArgs}

CoreCall(entry, cwd, input, options, present, out) ==
    [entry |-> entry, cwd |-> cwd, input |-> input, options |-> options,
     present |-> present, outcome |-> out.outcome, error |-> out.error,
     summary |-> out.summary]

DefaultOptions == [parallel |-> TRUE, verbose |-> FALSE, quiet |-> FALSE]

CoreFrame == UNCHANGED <<resultVars, poolVars, summaryVars, pathVars, configVars, disc>>

LintProjectCall ==
    /\ core = NoCore
    /\ \E cwd \in WorkingDirectories, projectRoot \in CoreInputs,
          options \in SDKLintOptions, present \in SUBSET CoreFiles :
            core' = CoreCall("lintProject", cwd, projectRoot, options, present,
                             lintProject(cwd, projectRoot, options, present))
    /\ CoreFrame

LintFilesCall ==
    /\ core = NoCore
    /\ \E cwd \in WorkingDirectories, fileList \in CoreFileLists,
          options \in SDKLintOptions :
            core' = CoreCall("lintFiles", cwd, fileList, options, CoreFiles,
                             lintFiles(cwd, fileList, options, CoreFiles))
    /\ CoreFrame

LoadProjectConfigCall ==
    /\ core = NoCore
    /\ \E cwd \in WorkingDirectories, projectRoot \in CoreInputs :
            core' = CoreCall("loadProjectConfig", cwd, projectRoot, DefaultOptions,
                             CoreFiles, loadProjectConfig(cwd, projectRoot))
    /\ CoreFrame

DetectProjectCall ==
    /\ core = NoCore
    /\ \E cwd \in WorkingDirectories, projectRoot \in CoreInputs :
            core' = CoreCall("detectProject", cwd, projectRoot, DefaultOptions,
                             CoreFiles, detectProject(cwd, projectRoot))
    /\ CoreFrame

InitCore ==
    /\ core = NoCore /\ disc = NoDisc
    /\ ResultIdle /\ PoolIdle /\ SummaryIdle /\ PathIdle /\ ConfigIdle

NextCore == LintProjectCall \/ LintFilesCall \/ LoadProjectConfigCall \/ DetectProjectCall

SpecCore == InitCore /\ [][NextCore]_vars

CoreCalled(entry) == core.entry = entry

CoreThrown == core.entry # "none" /\ core.outcome = "threw"
ProjectLinted == core.entry = "lintProject" /\ core.outcome = "returned"

\* C22: an exception that escapes lintProject, lintFiles, loadProjectConfig
\* or detectProject is a PathSecurityError or an I/O error of the
\* project-root resolution; no other kind of error escapes.
C22_OnlyPathSecurityErrorsEscape ==
    CoreThrown => core.error \in {"PathSecurityError", "IOError"}

\* C25: the result list of the summary lintProject returns is in ascending
\* file-path order across all linters, with parallel on and off.
C25_AggregatedResultsAscending ==
    ProjectLinted =>
        \A i, j \in 1..Len(core.summary.results) :
            i < j => core.summary.results[i].file <= core.summary.results[j].file

CountsOf(s) == <<s.totalFiles, s.validFiles, s.totalErrors, s.totalWarnings>>

\* the same call with other values of quiet and verbose
WithFlags(quiet, verbose) ==
    lintProject(core.cwd, core.input,
                [core.options EXCEPT !.quiet = quiet, !.verbose = verbose],
                core.present).summary

\* the result SettingsLinter adds for a missing settings file
MissingSettingsResults(verbose) ==
    IF verbose /\ SettingsFile \notin core.present THEN 1 ELSE 0

RegularFilesInCwd(cwd, fileList) ==
    /\ fileList # <<>>
    /\ \A i \in 1..Len(fileList) :
        LET q == resolve(cwd, fileList[i])
        IN /\ ~fileList[i].nul
           /\ IsPrefix(cwd, q)
           /\ q \in DOMAIN CoreTree
           /\ CoreTree[q].type = "file"

\* C30: lintFiles called with a non-empty list of existing regular files
\* inside the working directory returns a summary instead of throwing.
C30_LintFilesReturnsForRegularFiles ==
    core.entry = "lintFiles" /\ RegularFilesInCwd(core.cwd, core.input)
        => core.outcome = "returned"

(***************************************************************************)
(* File discovery of BaseLinterImpl.findMarkdownFilesInDirectories.  The   *)
(* markdown files of a project are named by their path below the project   *)
(* root; present is the set of them that exist.                            *)
(***************************************************************************)
MarkdownFiles ==
    <<<<".claude", "agents", "a.md">>, <<".claude", "agents", "sub", "b.md">>,
      <<"agents", "c.md">>, <<"docs", "d.md">>>>

Range(seq) == {seq[i] : i \in 1..Len(seq)}

\* the directories AgentsLinter.lint hands over
agentDirs == <<<<".claude", "agents">>, <<"src", "agents">>, <<"agents">>>>

\* rules.includePatterns entries: ".", ".claude", ".claude/agents", "docs"
IncludeDirs == {<<>>, <<".claude">>, <<".claude", "agents">>, <<"docs">>}

\* rules.excludePatterns entries without wildcards
ExcludeNames == {"sub", "docs"}

MaxPatterns == 2    \* entries of rules.includePatterns

IncludePatternLists == UNION {[1..n -> IncludeDirs] : n \in 0..MaxPatterns}

\* glob(path.join(dir, '**/*.md'))
glob(dir, present) ==
    SelectSeq(MarkdownFiles, LAMBDA f : f \in present /\ IsPrefix(dir, f))

\* new RegExp(pattern).test(relativePath) for a pattern that is a plain name
shouldSkipFile(file, excludePatterns) ==
    \E i \in 1..Len(file) : file[i] \in excludePatterns

RECURSIVE SearchLoop(_, _, _, _)
SearchLoop(searchDirs, present, excludePatterns, allFiles) ==
    IF searchDirs = <<>> THEN allFiles
    ELSE SearchLoop(Tail(searchDirs), present, excludePatterns,
                    allFiles \o SelectSeq(glob(Head(searchDirs), present),
                                          LAMBDA f : ~shouldSkipFile(f, excludePatterns)))

findMarkdownFilesInDirectories(directories, includePatterns, excludePatterns, present) ==
    SearchLoop(directories \o includePatterns, present, excludePatterns, <<>>)

DiscFrame == UNCHANGED <<resultVars, poolVars, summaryVars, pathVars, configVars, core>>

FindMarkdownFiles ==
    /\ disc = NoDisc
    /\ \E present \in SUBSET Range(MarkdownFiles),
          includePatterns \in IncludePatternLists,
          excludePatterns \in SUBSET ExcludeNames :
            disc' = [entry |-> "find", present |-> present,
                     includePatterns |-> includePatterns,
                     excludePatterns |-> excludePatterns,
                     files |-> findMarkdownFilesInDirectories(
                                   agentDirs, includePatterns, excludePatterns, present)]
    /\ DiscFrame

(***************************************************************************)
(* Discovery with followSymlinks, as the specification describes it: the   *)
(* walk below a candidate directory uses a link-aware stat, resolves a     *)
(* link's real path and the project root's real path, keeps what stays     *)
(* inside the root, and skips links that are broken or form a cycle.       *)
(* /p is the project root and /p/a the candidate directory; it holds a     *)
(* file, a directory s with a file, and the links l1 and s/l2.             *)
(***************************************************************************)
WalkRoot == <<"p">>
CandidateDir == <<"p", "a">>

WalkNodes ==
    <<<<"p">>, <<"p", "a">>, <<"p", "a", "f.md">>, <<"p", "a", "l1">>,
      <<"p", "a", "s">>, <<"p", "a", "s", "g.md">>, <<"p", "a", "s", "l2">>,
      <<"o">>, <<"o", "h.md">>>>

WalkFiles == {<<"p", "a", "f.md">>, <<"p", "a", "s", "g.md">>, <<"o", "h.md">>}

WalkTargets ==
    {<<"p", "a">>, <<"p", "a", "s">>, <<"p", "a", "f.md">>, <<"p", "a", "l1">>,
     <<"p", "a", "s", "l2">>, <<"p", "a", "x">>, <<"o">>, <<"o", "h.md">>}

WalkTree(t1, t2) ==
    [q \in Range(WalkNodes) |->
        CASE q = <<"p", "a", "l1">> -> Link(t1)
          [] q = <<"p", "a", "s", "l2">> -> Link(t2)
          [] q \in WalkFiles -> RegularFile
          [] OTHER -> Dir]

\* readdir of a directory given by its real path
readdir(dir) ==
    SelectSeq(WalkNodes, LAMBDA q : Len(q) = Len(dir) + 1 /\ IsPrefix(dir, q))

addFile(st, file) ==
    IF Includes(st.files, file) THEN st
    ELSE [st EXCEPT !.files = Append(@, file)]

pushDir(st, dir) == [st EXCEPT !.queue = Append(@, dir)]

onLinkFailureThrows(st) == [st EXCEPT !.threw = TRUE]

\* a link whose real path cannot be resolved (broken, or a cycle) is skipped
onLinkFailure(st) == st

\* one directory entry: lstat, then realpath and the boundary check for links
visitEntry(tree, entry, st, followSymlinks) ==
    CASE tree[entry].type = "file" -> addFile(st, entry)
      [] tree[entry].type = "dir" -> pushDir(st, entry)
      [] OTHER ->
            IF ~followSymlinks THEN st
            ELSE LET target == realpath(tree, entry)
                     root == realpath(tree, WalkRoot)
                 IN IF target.code # "OK" \/ root.code # "OK" THEN onLinkFailure(st)
                    ELSE IF ~IsPrefix(root.path, target.path) THEN st
                    ELSE IF tree[target.path].type = "file"
                    THEN addFile(st, target.path)
                    ELSE pushDir(st, target.path)

RECURSIVE scanEntries(_, _, _, _)
scanEntries(tree, entries, st, followSymlinks) ==
    IF entries = <<>> THEN st
    ELSE scanEntries(tree, Tail(entries),
                     visitEntry(tree, Head(entries), st, followSymlinks),
                     followSymlinks)

StartWalk ==
    /\ disc = NoDisc
    /\ \E t1, t2 \in WalkTargets, followSymlinks \in BOOLEAN :
            disc' = [entry |-> "walk", t1 |-> t1, t2 |-> t2,
                     followSymlinks |-> followSymlinks, outcome |-> "walking",
                     queue |-> <<CandidateDir>>, scanned |-> <<>>,
                     files |-> <<>>, threw |-> FALSE]
    /\ DiscFrame

\* take the next directory; one that was scanned before is not scanned again
WalkStep ==
    /\ disc.entry = "walk" /\ disc.outcome = "walking" /\ disc.queue # <<>>
    /\ LET dir == Head(disc.queue)
           rest == [disc EXCEPT !.queue = Tail(@)]
           st == scanEntries(WalkTree(disc.t1, disc.t2), readdir(dir),
                             [rest EXCEPT !.scanned = Append(@, dir)],
                             disc.followSymlinks)
       IN disc' = IF Includes(disc.scanned, dir) THEN rest
                  ELSE IF st.threw THEN [st EXCEPT !.outcome = "threw"]
                  ELSE st
    /\ DiscFrame

WalkReturn ==
    /\ disc.entry = "walk" /\ disc.outcome = "walking" /\ disc.queue = <<>>
    /\ disc' = [disc EXCEPT !.outcome = "returned"]
    /\ DiscFrame

InitDiscovery ==
    /\ core = NoCore /\ disc = NoDisc
    /\ ResultIdle /\ PoolIdle /\ SummaryIdle /\ PathIdle /\ ConfigIdle

NextDiscovery == FindMarkdownFiles \/ StartWalk \/ WalkStep \/ WalkReturn

SpecDiscovery == InitDiscovery /\ [][NextDiscovery]_vars

\* the walk is one asynchronous function: it runs until it returns
SpecDiscoveryFair ==
    SpecDiscovery /\ WF_vars(WalkStep) /\ WF_vars(WalkReturn)

\* C24: the list discovery returns contains each file at most once, also
\* when a file is below two of the searched directories (a candidate
\* directory and an includePatterns entry).
C24_EachFileAtMostOnce ==
    disc.entry = "find" =>
        \A i, j \in 1..Len(disc.files) : disc.files[i] = disc.files[j] => i = j

Walking == disc.entry = "walk" /\ disc.followSymlinks
WalkOver == disc.entry = "walk" /\ disc.outcome = "returned"

\* the link at nominal path q cannot be resolved: broken, or part of a cycle
Unresolvable(q) == realpath(WalkTree(disc.t1, disc.t2), q).code # "OK"

====
